---- MODULE Spec2Model ----
(***************************************************************************)
(* Model of pdftables/boxes.py: Rectangle, Box (is_connected_to, extend,   *)
(* clip, copy), the shared sentinel Box.empty_box, BoxList (inside,        *)
(* filterByType, purge_empty_text, bounds) and Histogram.rounder.          *)
(*                                                                         *)
(* `heap` holds the Box objects, the only objects the module mutates       *)
(* (heap[1] is Box.empty_box); a Box is named by its place in heap.        *)
(* `call` records the last call (operation, receiver, arguments, return    *)
(* value, whether it raised) and `pre` is the heap as that call found it.  *)
(* A BoxList is a sequence of Box ids and a Histogram a function from its  *)
(* keys to their counts; neither is ever mutated by the module, so they    *)
(* are values: a call that returns a list says whether the list returned   *)
(* is the receiver itself (same) and what it holds (items).                *)
(*                                                                         *)
(* Coordinates are fixed-point numbers: one coordinate unit is Scale       *)
(* model units, so 0.5 is Scale \div 2.  An optional attribute is a set:   *)
(* None is {} and a value v is {v}.  A text is a sequence of characters.   *)
(***************************************************************************)
EXTENDS Integers, Sequences, FiniteSets

VARIABLES heap, pre, call

vars == <<heap, pre, call>>

----------------------------------------------------------------------------
(* Bounds of the model *)

\* Coordinates of the rectangles drawn for clip and inside: 0..MaxCoord.
MaxCoord == 1

\* Largest number of Box objects on the heap, the sentinel included.
MaxHeap == 3

\* Longest BoxList drawn as an input.
MaxLen == 2

\* Longest text a Box of the object specification grows to under extend.
MaxText == 2

----------------------------------------------------------------------------
(* Values *)

None == {}

Some(v) == {v}

Get(o) == CHOOSE v \in o : TRUE

\* Model units per coordinate unit (the literals 0.5 and 10 of
\* is_connected_to become Scale \div 2 and 10 * Scale).
Scale == 10

\* float("+inf"): larger than every finite coordinate of the model.
Inf == 100000

Max(a, b) == IF a >= b THEN a ELSE b

Min(a, b) == IF a <= b THEN a ELSE b

Abs(a) == IF a < 0 THEN -a ELSE a

\* namedtuple("Rectangle", "x1 y1 x2 y2")
Rectangle(x1, y1, x2, y2) == [x1 |-> x1, y1 |-> y1, x2 |-> x2, y2 |-> y2]

\* Box.__init__: classname is no argument of the constructor; the producer
\* of the boxes sets it afterwards, and until then the attribute is absent.
Box(rect, text, barycenter, barycenter_y) ==
    [rect |-> rect, text |-> text, barycenter |-> barycenter,
     barycenter_y |-> barycenter_y, classname |-> None]

left(b) == b.rect.x1

top(b) == b.rect.y1

right(b) == b.rect.x2

bottom(b) == b.rect.y2

width(b) == right(b) - left(b)

\* Box.empty_box
empty_box == Box(Rectangle(Inf, Inf, -Inf, -Inf), None, None, None)

\* The heap address of Box.empty_box.
EmptyBoxId == 1

\* The record of a call: ret is the return value (a Box id, a BoxList id, a
\* Histogram id or a boolean, by operation; None when the call raised).
Call(op, self, args, ret, raised) ==
    [op |-> op, self |-> self, args |-> args, ret |-> ret, raised |-> raised]

NoCall == Call("none", 0, <<>>, None, FALSE)

BoxIds == 1..Len(heap)

----------------------------------------------------------------------------
(* Box.clip *)

\* ClipStep with the left edge taken from the argument, not the maximum.
ClipStepLeftOverwritten(acc, rectangle) ==
    Rectangle(left(rectangle), Max(acc.y1, top(rectangle)),
              Min(acc.x2, right(rectangle)), Min(acc.y2, bottom(rectangle)))

\* One round of the loop of clip: the running intersection and `rectangle`.
ClipStep(acc, rectangle) ==
    Rectangle(Max(acc.x1, left(rectangle)), Max(acc.y1, top(rectangle)),
              Min(acc.x2, right(rectangle)), Min(acc.y2, bottom(rectangle)))

\* Inverted with the comparisons not strict.
InvertedOrFlat(r) == r.x1 >= r.x2 \/ r.y1 >= r.y2

\* if x1 > x2 or y1 > y2
Inverted(r) == r.x1 > r.x2 \/ r.y1 > r.y2

\* The loop of clip over `rectangles`, from the running intersection acc:
\* exit is TRUE when the loop returned Box.empty_box, and otherwise rect is
\* the rectangle the loop ended with.
RECURSIVE ClipLoop(_, _)
ClipLoop(acc, rectangles) ==
    IF rectangles = <<>>
    THEN [exit |-> FALSE, rect |-> acc]
    ELSE LET nxt == ClipStep(acc, Head(rectangles))
         IN  IF Inverted(nxt)
             THEN [exit |-> TRUE, rect |-> nxt]
             ELSE ClipLoop(nxt, Tail(rectangles))

\* What self.clip(*rectangles) returns for a Box whose rectangle is rect:
\* Box.empty_box itself (sentinel) when the loop exits early, and otherwise
\* a new Box around the rectangle the loop ended with.
ClipValue(rect, rectangles) ==
    LET r == ClipLoop(rect, rectangles)
    IN  [sentinel |-> r.exit,
         rect |-> IF r.exit THEN empty_box.rect ELSE r.rect]

\* self.clip(*rectangles); the new Box is geometry only.
Clip(self, rectangles) ==
    LET v == ClipValue(heap[self].rect, rectangles)
    IN  /\ (~v.sentinel) => Len(heap) < MaxHeap
        /\ heap' = IF v.sentinel THEN heap
                   ELSE Append(heap, Box(v.rect, None, None, None))
        /\ call' = Call("clip", self, rectangles,
                        IF v.sentinel THEN EmptyBoxId ELSE Len(heap) + 1, FALSE)
        /\ pre' = heap

----------------------------------------------------------------------------
(* Box.copy, Box.is_connected_to, Box.extend *)

\* Box.copy(o): a new Box with o's rect, text and barycenters.
Copy(o) ==
    /\ Len(heap) < MaxHeap
    /\ heap' = Append(heap, Box(heap[o].rect, heap[o].text,
                                heap[o].barycenter, heap[o].barycenter_y))
    /\ call' = Call("copy", o, <<>>, Len(heap) + 1, FALSE)
    /\ pre' = heap

IsSpace(c) == c = " "

\* text.strip(): the text without its leading and trailing whitespace.
RECURSIVE LStrip(_)
LStrip(t) == IF t # <<>> /\ IsSpace(Head(t)) THEN LStrip(Tail(t)) ELSE t

RECURSIVE RStrip(_)
RStrip(t) ==
    IF t # <<>> /\ IsSpace(t[Len(t)]) THEN RStrip(SubSeq(t, 1, Len(t) - 1)) ELSE t

Strip(t) == RStrip(LStrip(t))

\* text.endswith(c)
EndsWith(t, c) == t # <<>> /\ t[Len(t)] = c

\* TOLERANCE without the widening for an open parenthesis.
TOLERANCE_never_widened(self) == Scale \div 2

\* TOLERANCE of the local function equal: 0.5, or 10 when self.text ends
\* with an open parenthesis.
TOLERANCE(self) ==
    IF EndsWith(Get(self.text), "(") THEN 10 * Scale ELSE Scale \div 2

\* equal(left, right), the local function of self.is_connected_to.
equal(self, l, r) == Abs(l - r) < TOLERANCE(self)

\* self.is_connected_to(next) on Box values: raised when a text that the
\* call reads is None (None has no strip), ret the boolean returned.
is_connected_to(self, next) ==
    IF self.text = None
    THEN [raised |-> TRUE, ret |-> FALSE]
    ELSE IF Strip(Get(self.text)) = <<>>
    THEN [raised |-> FALSE, ret |-> FALSE]
    ELSE IF next.text = None
    THEN [raised |-> TRUE, ret |-> FALSE]
    ELSE IF Strip(Get(next.text)) = <<>>
    THEN [raised |-> FALSE, ret |-> FALSE]
    ELSE LET shared_barycenter == self.barycenter_y = next.barycenter_y
             shared_boundary == equal(self, right(self), left(next))
         IN  [raised |-> FALSE, ret |-> shared_barycenter /\ shared_boundary]

IsConnectedTo(self, next) ==
    LET r == is_connected_to(heap[self], heap[next])
    IN  /\ call' = Call("is_connected_to", self, <<next>>,
                        IF r.raised THEN None ELSE r.ret, r.raised)
        /\ pre' = heap
        /\ heap' = heap

\* extend taking the whole rectangle of next, not its right edge alone.
extend_whole_rect(self, next) ==
    IF self.text = None \/ next.text = None
    THEN [raised |-> TRUE, box |-> self]
    ELSE [raised |-> FALSE,
          box |-> [self EXCEPT
                     !.text = Some(Get(self.text) \o Get(next.text)),
                     !.rect = next.rect]]

\* extend with its two statements in the other order: the rectangle is
\* replaced before the concatenation of the texts raises.
extend_rect_first(self, next) ==
    LET moved == [self EXCEPT !.rect = [self.rect EXCEPT !.x2 = right(next)]]
    IN  IF self.text = None \/ next.text = None
        THEN [raised |-> TRUE, box |-> moved]
        ELSE [raised |-> FALSE,
              box |-> [moved EXCEPT
                         !.text = Some(Get(self.text) \o Get(next.text))]]

\* self.extend(next) on Box values: the receiver after the call.  The first
\* statement, self.text += next.text, raises when either text is None and
\* the second statement is then not reached.
extend(self, next) ==
    IF self.text = None \/ next.text = None
    THEN [raised |-> TRUE, box |-> self]
    ELSE [raised |-> FALSE,
          box |-> [self EXCEPT
                     !.text = Some(Get(self.text) \o Get(next.text)),
                     !.rect = [self.rect EXCEPT !.x2 = right(next)]]]

Extend(self, next) ==
    LET r == extend(heap[self], heap[next])
    IN  /\ heap' = [heap EXCEPT ![self] = r.box]
        /\ call' = Call("extend", self, <<next>>, None, r.raised)
        /\ pre' = heap

----------------------------------------------------------------------------
(* BoxList *)

\* The classname the producer of the boxes attaches to a Box it has built.
Labelled(box, classname) == [box EXCEPT !.classname = Some(classname)]

\* is_in_rect accepting every box that overlaps rect.
is_in_rect_overlap(rect, box) ==
    /\ left(box) <= right(box) /\ top(box) <= bottom(box)
    /\ left(box) <= right(rect) /\ left(rect) <= right(box)
    /\ top(box) <= bottom(rect) /\ top(rect) <= bottom(box)

\* is_in_rect(box), the local function of inside(rect).
is_in_rect(rect, box) ==
    /\ left(rect) <= left(box) /\ left(box) <= right(box)
    /\ right(box) <= right(rect)
    /\ top(rect) <= top(box) /\ top(box) <= bottom(box)
    /\ bottom(box) <= bottom(rect)

\* L.inside(rect): a fresh list of the boxes of L that are in rect.
Inside(L, rect) ==
    LET Test(i) == is_in_rect(rect, heap[i])
    IN  /\ call' = Call("inside", L, <<rect>>,
                        [same |-> FALSE, items |-> SelectSeq(L, Test)], FALSE)
        /\ pre' = heap
        /\ heap' = heap

\* L.filterByType(flt): flt is None when no argument is given.  `not flt`
\* holds of None and of an empty collection.  box.classname raises when the
\* attribute was never set.
FilterByType(L, flt) ==
    LET Test(i) == Get(heap[i].classname) \in Get(flt)
        falsy == flt = None \/ Get(flt) = {}
        raised == ~falsy /\ \E k \in 1..Len(L) : heap[L[k]].classname = None
    IN  /\ call' = Call("filterByType", L, <<flt>>,
                        IF falsy THEN [same |-> TRUE, items |-> L]
                        ELSE IF raised THEN None
                        ELSE [same |-> FALSE, items |-> SelectSeq(L, Test)],
                        raised)
        /\ pre' = heap
        /\ heap' = heap

\* The test of purge_empty_text on one box: box.text.strip() or
\* box.classname != 'LTTextLineHorizontal', with the attribute errors of a
\* text that is None and of a classname that was never set.
purge_keeps(box) ==
    IF box.text = None
    THEN [raised |-> TRUE, ret |-> FALSE]
    ELSE IF Strip(Get(box.text)) # <<>>
    THEN [raised |-> FALSE, ret |-> TRUE]
    ELSE IF box.classname = None
    THEN [raised |-> TRUE, ret |-> FALSE]
    ELSE [raised |-> FALSE, ret |-> Get(box.classname) # "LTTextLineHorizontal"]

\* L.purge_empty_text()
PurgeEmptyText(L) ==
    LET Test(i) == purge_keeps(heap[i]).ret
        raised == \E k \in 1..Len(L) : purge_keeps(heap[L[k]]).raised
    IN  /\ call' = Call("purge_empty_text", L, <<>>,
                        IF raised THEN None
                        ELSE [same |-> FALSE, items |-> SelectSeq(L, Test)],
                        raised)
        /\ pre' = heap
        /\ heap' = heap

SetMin(S) == CHOOSE m \in S : \A x \in S : m <= x

SetMax(S) == CHOOSE m \in S : \A x \in S : m >= x

\* L.bounds(): a new Box around all the boxes of L; min() and max() of an
\* empty list raise.
Bounds(L) ==
    LET B == {heap[L[k]] : k \in 1..Len(L)}
        r == Rectangle(SetMin({left(b) : b \in B}), SetMin({top(b) : b \in B}),
                       SetMax({right(b) : b \in B}), SetMax({bottom(b) : b \in B}))
    IN  /\ L # <<>> => Len(heap) < MaxHeap
        /\ heap' = IF L = <<>> THEN heap
                   ELSE Append(heap, Box(r, None, None, None))
        /\ call' = Call("bounds", L, <<>>,
                        IF L = <<>> THEN None ELSE Len(heap) + 1, L = <<>>)
        /\ pre' = heap

----------------------------------------------------------------------------
(* Histogram *)

\* round(n / d) for d > 0: to the nearest integer, a half away from zero.
Round(n, d) ==
    IF n >= 0 THEN (2 * n + d) \div (2 * d) ELSE -((2 * (-n) + d) \div (2 * d))

\* _rounder(val, tol)
_rounder(val, tol) == Round(val, tol) * tol

\* The count c[k] of a Counter: 0 for a key it does not hold.
CountOf(c, k) == IF k \in DOMAIN c THEN c[k] ELSE 0

\* c + d with the counts of d put in place of those of c, not added.
CounterOverwrite(c, d) ==
    [k \in DOMAIN c \cup DOMAIN d |-> IF k \in DOMAIN d THEN d[k] ELSE c[k]]

\* c + d of two Counters: the counts are added and only the keys whose sum
\* is positive are kept.
CounterAdd(c, d) ==
    LET K == {k \in DOMAIN c \cup DOMAIN d : CountOf(c, k) + CountOf(d, k) > 0}
    IN  [k \in K |-> CountOf(c, k) + CountOf(d, k)]

\* Histogram()
EmptyHistogram == [k \in {} |-> 0]

\* Histogram({key: count})
Single(key, count) == [k \in {key} |-> count]

\* The loop of rounder: `order` is the order in which the keys of self are
\* visited (the iteration order of a dict), c the histogram built so far.
RECURSIVE RounderLoop(_, _, _, _)
RounderLoop(c, self, tol, order) ==
    IF order = <<>> THEN c
    ELSE LET item == Head(order)
         IN  RounderLoop(CounterAdd(c, Single(_rounder(item, tol), self[item])),
                         self, tol, Tail(order))

\* h.rounder(tol), its keys visited in `order`.
Rounder(h, tol, order) ==
    /\ call' = Call("rounder", h, <<tol, order>>,
                    RounderLoop(EmptyHistogram, h, tol, order), FALSE)
    /\ pre' = heap
    /\ heap' = heap

----------------------------------------------------------------------------
(* SpecClip: clip applied to drawn rectangles *)

Coords == 0..MaxCoord

\* Every rectangle over Coords, the inverted ones included.
Rects == {Rectangle(x1, y1, x2, y2) : x1 \in Coords, y1 \in Coords,
                                      x2 \in Coords, y2 \in Coords}

\* The objects passed to clip: geometry-only boxes and Box.empty_box.
ArgBoxes == {Box(r, None, None, None) : r \in Rects} \cup {empty_box}

InitClip ==
    /\ \E b \in Rects : heap = <<empty_box, Box(b, None, None, None)>>
    /\ pre = heap
    /\ call = NoCall

ClipNoArgs == \E self \in BoxIds : Clip(self, <<>>)

ClipOneArg == \E self \in BoxIds, r1 \in ArgBoxes : Clip(self, <<r1>>)

ClipTwoArgs ==
    \E self \in BoxIds, r1 \in ArgBoxes, r2 \in ArgBoxes : Clip(self, <<r1, r2>>)

NextClip ==
    \/ call.op = "none" /\ ClipNoArgs
    \/ call.op = "none" /\ ClipOneArg
    \/ call.op = "none" /\ ClipTwoArgs

SpecClip == InitClip /\ [][NextClip]_vars

----------------------------------------------------------------------------
(* Spec: the objects of a program that builds, copies, merges, clips and  *)
(* lists boxes                                                             *)

\* Box(rect, ...): a new Box object (b is the Box as the caller built it).
New(b) ==
    /\ Len(heap) < MaxHeap
    /\ heap' = Append(heap, b)
    /\ call' = Call("Box", 0, <<b>>, Len(heap) + 1, FALSE)
    /\ pre' = heap

Text(str) == Some(str)

\* The boxes the producer hands over in Spec: two glyphs, a box without
\* text, and an inverted box of whitespace.
Produced ==
    { Box(Rectangle(0, 0, 1, 1), Text(<<"a">>), None, None),
      Labelled(Box(Rectangle(1, 0, 2, 1), Text(<<"b">>), None, None), "LTChar"),
      Box(Rectangle(0, 0, 2, 2), None, None, None),
      Labelled(Box(Rectangle(2, 0, 1, 1), Text(<<" ">>), None, None),
               "LTTextLineHorizontal") }

\* The BoxLists of Spec: the runs of boxes in the order they were built.
BoxLists ==
    {<<>>} \cup {SubSeq([k \in BoxIds |-> k], i, j) : i \in BoxIds, j \in BoxIds}

\* The type collections handed to filterByType (None: no argument).
Filters == {None, Some({}), Some({"LTChar"}),
            Some({"LTChar", "LTTextLineHorizontal"})}

Init ==
    /\ heap = <<empty_box>>
    /\ pre = heap
    /\ call = NoCall

\* The caller is between two calls.
Idle == call.op = "none"

NewBox == Idle /\ \E b \in Produced : New(b)

CopyBox == Idle /\ \E o \in BoxIds : Copy(o)

ConnectedBoxes ==
    Idle /\ \E self \in BoxIds, next \in BoxIds : IsConnectedTo(self, next)

\* extend is stopped once the merged text would pass MaxText.
ExtendBox ==
    /\ Idle
    /\ \E self \in BoxIds, next \in BoxIds :
          /\ (heap[self].text # None /\ heap[next].text # None)
                => Len(Get(heap[self].text)) + Len(Get(heap[next].text)) <= MaxText
          /\ Extend(self, next)

ClipBoxNoArgs == Idle /\ \E self \in BoxIds : Clip(self, <<>>)

ClipBoxOneArg == Idle /\ \E self \in BoxIds, r1 \in BoxIds : Clip(self, <<heap[r1]>>)

ClipBoxTwoArgs ==
    /\ Idle
    /\ \E self \in BoxIds, r1 \in BoxIds, r2 \in BoxIds :
          Clip(self, <<heap[r1], heap[r2]>>)

InsideList == Idle /\ \E L \in BoxLists, rect \in BoxIds : Inside(L, heap[rect])

FilterList == Idle /\ \E L \in BoxLists, flt \in Filters : FilterByType(L, flt)

PurgeList == Idle /\ \E L \in BoxLists : PurgeEmptyText(L)

BoundsList == Idle /\ \E L \in BoxLists : Bounds(L)

\* The caller has taken the result of the call and goes on.
Return ==
    /\ ~Idle
    /\ call' = NoCall
    /\ pre' = heap
    /\ heap' = heap

Next ==
    \/ NewBox
    \/ CopyBox
    \/ ConnectedBoxes
    \/ ExtendBox
    \/ ClipBoxNoArgs
    \/ ClipBoxOneArg
    \/ ClipBoxTwoArgs
    \/ InsideList
    \/ FilterList
    \/ PurgeList
    \/ BoundsList
    \/ Return

Spec == Init /\ [][Next]_vars

----------------------------------------------------------------------------
(* SpecConnected: is_connected_to on two drawn boxes, and the merge a     *)
(* caller makes when it answers true                                       *)

\* Edges, in model units: 0, 0.4, 0.5, 1.0 and 10.4 coordinate units.
ConnCoords == {0, 4, 5, 10, 104}

ConnTexts == {<<>>, <<" ">>, <<"a">>, <<"a", "(">>, <<"(", " ">>}

ConnBoxes ==
    {Box(Rectangle(x1, 0, x2, 10), Text(t), None, Some(by)) :
        x1 \in ConnCoords, x2 \in ConnCoords, t \in ConnTexts, by \in {0, 1}}

InitConnected ==
    /\ \E a \in ConnBoxes, b \in ConnBoxes : heap = <<empty_box, a, b>>
    /\ pre = heap
    /\ call = NoCall

AskConnected ==
    /\ call.op = "none"
    /\ \E self \in BoxIds, next \in BoxIds : IsConnectedTo(self, next)

\* if a.is_connected_to(b): a.extend(b)
MergeConnected ==
    /\ call.op = "is_connected_to"
    /\ ~call.raised
    /\ call.ret
    /\ Extend(call.self, call.args[1])

NextConnected == AskConnected \/ MergeConnected

SpecConnected == InitConnected /\ [][NextConnected]_vars

----------------------------------------------------------------------------
(* SpecInside: inside applied to a drawn list and a drawn rectangle *)

\* The vertical extents (top, bottom) of the boxes listed.
RowSpans == {<<0, 1>>, <<1, 1>>, <<1, 0>>}

ListedBoxes ==
    {Box(Rectangle(x1, ys[1], x2, ys[2]), None, None, None) :
        x1 \in Coords, x2 \in Coords, ys \in RowSpans}

\* The list of every Box built after Box.empty_box, in the order built.
Listed == [k \in 1..(Len(heap) - 1) |-> k + 1]

InitInside ==
    /\ \E n \in 0..MaxLen : \E bs \in [1..n -> ListedBoxes] :
           heap = <<empty_box>> \o bs
    /\ pre = heap
    /\ call = NoCall

InsideDrawn ==
    /\ call.op = "none"
    /\ \E rect \in ArgBoxes : Inside(Listed, rect)

NextInside == InsideDrawn

SpecInside == InitInside /\ [][NextInside]_vars

----------------------------------------------------------------------------
(* SpecFilter: filterByType and purge_empty_text applied to a drawn list   *)
(* of labelled boxes                                                       *)

ClassNames == {"LTChar", "LTTextLineHorizontal"}

LabelledBoxes ==
    {Labelled(Box(Rectangle(0, 0, 1, 1), Text(t), None, None), c) :
        t \in {<<>>, <<" ">>, <<"a">>}, c \in ClassNames}

InitFilter ==
    /\ \E n \in 0..MaxLen : \E bs \in [1..n -> LabelledBoxes] :
           heap = <<empty_box>> \o bs
    /\ pre = heap
    /\ call = NoCall

FilterDrawn ==
    /\ call.op = "none"
    /\ \E flt \in Filters : FilterByType(Listed, flt)

PurgeDrawn ==
    /\ call.op = "none"
    /\ PurgeEmptyText(Listed)

NextFilter == FilterDrawn \/ PurgeDrawn

SpecFilter == InitFilter /\ [][NextFilter]_vars

----------------------------------------------------------------------------
(* SpecHistogram: rounder applied to a drawn histogram *)

\* Keys are -1..MaxKey and tolerances 1..MaxTol.
MaxKey == 2

MaxTol == 3

Keys == (-1)..MaxKey

\* The counts of a histogram that BoxList.histogram or rounder has built
\* are positive: a Counter of an iterable counts occurrences, and the sum
\* of two Counters keeps positive counts only.
Counts == {1, 2}

Histograms == UNION {[K -> Counts] : K \in SUBSET Keys}

\* The orders in which the keys of h can be visited.
Orders(h) ==
    LET n == Cardinality(DOMAIN h)
    IN  {o \in [1..n -> DOMAIN h] : \A i, j \in 1..n : i # j => o[i] # o[j]}

InitHistogram ==
    /\ heap = <<empty_box>>
    /\ pre = heap
    /\ call = NoCall

RoundDrawn ==
    /\ call.op = "none"
    /\ \E h \in Histograms, tol \in 1..MaxTol :
           \E order \in Orders(h) : Rounder(h, tol, order)

NextHistogram == RoundDrawn

SpecHistogram == InitHistogram /\ [][NextHistogram]_vars

----------------------------------------------------------------------------
(* Claims about Box.clip (SpecClip) *)

\* The receiver of the last call as the call found it, and its arguments.
Self == pre[call.self]

\* The rectangle common to rect and every rectangle of rectangles, edge by
\* edge: the largest left and top, the smallest right and bottom.
Intersection(rect, rectangles) ==
    LET A == {rectangles[k] : k \in 1..Len(rectangles)}
    IN  Rectangle(SetMax({rect.x1} \cup {a.rect.x1 : a \in A}),
                  SetMax({rect.y1} \cup {a.rect.y1 : a \in A}),
                  SetMin({rect.x2} \cup {a.rect.x2 : a \in A}),
                  SetMin({rect.y2} \cup {a.rect.y2 : a \in A}))

IsInverted(r) == r.x1 > r.x2 \/ r.y1 > r.y2

\* C1: whenever the intersection of the receiver's rectangle with all the
\* arguments of a clip call (any number of them) is inverted, the call
\* returns Box.empty_box itself; in particular every clip of Box.empty_box
\* returns Box.empty_box.
C1_InvertedClipReturnsEmptyBox ==
    call.op = "clip" =>
        /\ IsInverted(Intersection(Self.rect, call.args)) => call.ret = EmptyBoxId
        /\ call.self = EmptyBoxId => call.ret = EmptyBoxId

\* C3: for a clip call with two arguments r1 and r2 on a box b, the box
\* returned by b.clip(r1, r2), the box returned by b.clip(r2, r1) and the box
\* returned by b.clip(r1).clip(r2) have the same rectangle, and each is
\* Box.empty_box when any of them is.
C3_ClipOrderIndependent ==
    (call.op = "clip" /\ Len(call.args) = 2) =>
        LET r1 == call.args[1]
            r2 == call.args[2]
            both == [sentinel |-> call.ret = EmptyBoxId,
                     rect |-> heap[call.ret].rect]
            swapped == ClipValue(Self.rect, <<r2, r1>>)
            first == ClipValue(Self.rect, <<r1>>)
            chained == ClipValue(first.rect, <<r2>>)
        IN  both = swapped /\ both = chained

\* C3 witness: a two-argument clip that returned Box.empty_box after its
\* second argument, although in the other order the first argument already
\* empties the intersection.
C3_Witness ==
    /\ call.op = "clip" /\ Len(call.args) = 2
    /\ call.ret = EmptyBoxId
    /\ ~IsInverted(Self.rect)
    /\ ~IsInverted(call.args[1].rect) /\ ~IsInverted(call.args[2].rect)
    /\ ~ClipValue(Self.rect, <<call.args[1]>>).sentinel
    /\ ClipValue(Self.rect, <<call.args[2]>>).sentinel
    /\ call.args[1].rect # Self.rect

\* C4 as stated: Box(r).clip(Box(r)) returns a box whose rectangle is r, for
\* every rectangle r.
C4_SelfClipIsIdentity ==
    (call.op = "clip" /\ Len(call.args) = 1 /\ call.args[1].rect = Self.rect)
        => heap[call.ret].rect = Self.rect

\* C4 amended: Box(r).clip(Box(r)) returns a new box whose rectangle is r
\* when r is not inverted (x1 <= x2 and y1 <= y2), and Box.empty_box when r
\* is inverted.
C4_SelfClipIsIdentityUnlessInverted ==
    (call.op = "clip" /\ Len(call.args) = 1 /\ call.args[1].rect = Self.rect)
        => IF IsInverted(Self.rect)
           THEN call.ret = EmptyBoxId
           ELSE /\ call.ret # EmptyBoxId
                /\ call.ret \notin DOMAIN pre
                /\ heap[call.ret].rect = Self.rect

\* C4 witness: a box with a flat but not inverted rectangle clipped against
\* its own rectangle, which gave a new box.
C4_Witness ==
    /\ call.op = "clip" /\ Len(call.args) = 1
    /\ call.args[1].rect = Self.rect
    /\ Self.rect.x1 = Self.rect.x2
    /\ ~IsInverted(Self.rect)
    /\ call.ret # EmptyBoxId

----------------------------------------------------------------------------
(* Claims about Box.is_connected_to and Box.extend (SpecConnected) *)

Next1 == pre[call.args[1]]

\* A text that is empty once its whitespace is stripped.
IsBlank(t) == \A i \in 1..Len(t) : t[i] = " "

\* The tolerance C2 states, in model units: 10 when the text ends with an
\* open parenthesis, 0.5 otherwise.
StatedTolerance(t) ==
    IF Len(t) > 0 /\ t[Len(t)] = "(" THEN 10 * Scale ELSE Scale \div 2

\* C2: for boxes a and b with non-null text, a.is_connected_to(b) is false
\* when a.text or b.text is blank, and otherwise true exactly when the two
\* barycenter_y are equal and |a.right - b.left| is strictly less than the
\* tolerance that a.text alone selects.
C2_ConnectedExactly ==
    (call.op = "is_connected_to" /\ Self.text # None /\ Next1.text # None) =>
        /\ ~call.raised
        /\ call.ret =
              IF IsBlank(Get(Self.text)) \/ IsBlank(Get(Next1.text))
              THEN FALSE
              ELSE /\ Self.barycenter_y = Next1.barycenter_y
                   /\ Abs(Self.rect.x2 - Next1.rect.x1)
                         < StatedTolerance(Get(Self.text))

\* C2 witness: a receiver ending with "(" found connected across a gap of
\* 0.5 or more, to a box whose own text does not end with "(".
C2_Witness ==
    /\ call.op = "is_connected_to" /\ ~call.raised /\ call.ret
    /\ EndsWith(Get(Self.text), "(")
    /\ ~EndsWith(Get(Next1.text), "(")
    /\ Abs(Self.rect.x2 - Next1.rect.x1) >= Scale \div 2

\* C6: when a.is_connected_to(b) is true and a.extend(b) is then called,
\* the extent [a.left, a.right] after the call contains the extent of a
\* before the call and the extent [b.left, b.right], and the width of a has
\* not decreased.
C6_ExtendAbsorbs ==
    (call.op = "extend" /\ ~call.raised
       /\ ~is_connected_to(Self, Next1).raised /\ is_connected_to(Self, Next1).ret)
    => LET a == heap[call.self]
       IN  /\ left(a) <= left(Self) /\ right(Self) <= right(a)
           /\ left(a) <= left(Next1) /\ right(Next1) <= right(a)
           /\ width(a) >= width(Self)

----------------------------------------------------------------------------
(* Claims about the objects (Spec) *)

\* C5: a successful a.extend(b) leaves a.text equal to the old a.text
\* followed by b.text and a.right equal to b.right, keeps every other
\* attribute of a, and changes no other box: b and any copy of a are as they
\* were, and no box is created.
C5_ExtendFrame ==
    (call.op = "extend" /\ ~call.raised) =>
        LET a == heap[call.self]
        IN  /\ a.text = Some(Get(Self.text) \o Get(Next1.text))
            /\ right(a) = right(Next1)
            /\ left(a) = left(Self) /\ top(a) = top(Self)
            /\ bottom(a) = bottom(Self)
            /\ a.barycenter = Self.barycenter
            /\ a.barycenter_y = Self.barycenter_y
            /\ a.classname = Self.classname
            /\ DOMAIN heap = DOMAIN pre
            /\ \A i \in DOMAIN pre : i # call.self => heap[i] = pre[i]

\* C5 witness: a box extended by another box, one with a text that is not
\* empty and with other left and right edges; the receiver changed.
C5_Witness ==
    /\ call.op = "extend" /\ ~call.raised
    /\ call.self # call.args[1]
    /\ Get(Next1.text) # <<>>
    /\ right(Next1) # right(Self)
    /\ left(Next1) # left(Self)
    /\ heap[call.self] # Self

\* C5 witness for the copy: a box extended by a copy of itself.
C5_WitnessCopy ==
    /\ call.op = "extend" /\ ~call.raised
    /\ call.self # call.args[1]
    /\ Next1 = [Self EXCEPT !.classname = None]
    /\ Get(Next1.text) # <<>>

\* C7: Box.empty_box always has the rectangle (+inf, +inf, -inf, -inf) and
\* no text, barycenter or barycenter_y, whatever was called, and an extend
\* whose receiver is Box.empty_box raises.
C7_EmptyBoxImmutable ==
    /\ heap[EmptyBoxId].rect = Rectangle(Inf, Inf, -Inf, -Inf)
    /\ heap[EmptyBoxId].text = None
    /\ heap[EmptyBoxId].barycenter = None
    /\ heap[EmptyBoxId].barycenter_y = None
    /\ (call.op = "extend" /\ call.self = EmptyBoxId) => call.raised

\* C7 witness: extend was called on Box.empty_box with a box that has a
\* text and a finite right edge, and raised.
C7_Witness ==
    /\ call.op = "extend" /\ call.self = EmptyBoxId /\ call.raised
    /\ Next1.text # None
    /\ right(Next1) # -Inf

----------------------------------------------------------------------------
(* Claims about BoxList (SpecInside, SpecFilter) *)

\* The boxes of L that C8 keeps: all four edges within rect.
Contained(rect, box) ==
    /\ rect.rect.x1 <= box.rect.x1 /\ box.rect.x1 <= box.rect.x2
    /\ box.rect.x2 <= rect.rect.x2
    /\ rect.rect.y1 <= box.rect.y1 /\ box.rect.y1 <= box.rect.y2
    /\ box.rect.y2 <= rect.rect.y2

\* R holds exactly the entries of L at the places in Keep, in the order of L.
IsSelection(R, L, Keep) ==
    /\ Len(R) = Cardinality(Keep)
    /\ \E f \in [1..Len(R) -> Keep] :
          /\ \A i, j \in 1..Len(R) : i < j => f[i] < f[j]
          /\ \A i \in 1..Len(R) : R[i] = L[f[i]]

\* C8: L.inside(rect) is a new list holding exactly the boxes of L with
\* rect.left <= box.left <= box.right <= rect.right and rect.top <= box.top
\* <= box.bottom <= rect.bottom, in the order of L, and no box is changed.
C8_InsideExactly ==
    call.op = "inside" =>
        LET L == call.self
            Keep == {k \in 1..Len(L) : Contained(call.args[1], pre[L[k]])}
        IN  /\ ~call.raised
            /\ ~call.ret.same
            /\ IsSelection(call.ret.items, L, Keep)
            /\ heap = pre

\* Two rectangles that share a point.
Overlap(r, q) ==
    /\ Max(r.x1, q.x1) <= Min(r.x2, q.x2)
    /\ Max(r.y1, q.y1) <= Min(r.y2, q.y2)

\* C8 witness: inside dropped the first box of the list, which overlaps
\* rect without lying within it, and kept a later one.
C8_Witness ==
    /\ call.op = "inside"
    /\ Len(call.self) >= 2
    /\ Len(call.ret.items) >= 1
    /\ call.ret.items[1] # call.self[1]
    /\ ~IsInverted(pre[call.self[1]].rect)
    /\ ~IsInverted(call.args[1].rect)
    /\ Overlap(pre[call.self[1]].rect, call.args[1].rect)

\* C9: filterByType without a type collection returns the list itself; with
\* a type collection, whichever it is, it returns exactly the boxes of the
\* list whose classname is in the collection, in the order of the list.
C9_FilterByTypeExactly ==
    (call.op = "filterByType" /\ ~call.raised) =>
        LET L == call.self
            flt == call.args[1]
            Keep == {k \in 1..Len(L) : pre[L[k]].classname \cap Get(flt) # {}}
        IN  IF flt = None
            THEN call.ret.same /\ call.ret.items = L
            ELSE IsSelection(call.ret.items, L, Keep)

----------------------------------------------------------------------------
(* Claims about Histogram.rounder (SpecHistogram) *)

RECURSIVE Sum(_, _)
\* The sum of the counts of h over the keys in K.
Sum(h, K) ==
    IF K = {} THEN 0
    ELSE LET k == CHOOSE k \in K : TRUE IN h[k] + Sum(h, K \ {k})

Total(h) == Sum(h, DOMAIN h)

====
